---- MODULE Spec2Model ----
(***************************************************************************)
(* Model of stevewoolley/IoT: the topic matcher (awsiot.topic_search and   *)
(* awsiot.tokenizer) and the lazily connecting MQTT sessions               *)
(* (awsiot.Publisher, awsiot.Subscriber).                                  *)
(*                                                                         *)
(* Python strings are sequences of one-character strings, so that split,   *)
(* join, startswith and replace are computed as Python computes them.      *)
(* Python's None is the value None below, which is no character sequence.  *)
(***************************************************************************)
EXTENDS Integers, Sequences, FiniteSets, TLC

\* ------------------------------------------------------------------------
\* Bounds
\* ------------------------------------------------------------------------
\* longest topic pattern (characters) handed to topic_search
MaxPatLen == 3
\* longest concrete topic (characters) handed to topic_search
MaxTopicLen == 7
\* number of connect/publish/subscribe calls made in one run
MaxCalls == 3
\* longest suffix (characters) handed to tokenizer, the suffix 'cmd' apart
MaxSuffixLen == 2

\* the characters topics are built from; "/" is the separator
Alphabet == {"a", "b", "/"}

\* Python's None
None == <<"None">>

\* all strings of at most n characters
RECURSIVE Strings(_)
Strings(n) ==
    IF n = 0 THEN {<<>>}
    ELSE LET S == Strings(n - 1)
         IN  S \cup {Append(s, ch) : s \in {x \in S : Len(x) = n - 1}, ch \in Alphabet}

\* ------------------------------------------------------------------------
\* Python string primitives used by awsiot.py
\* ------------------------------------------------------------------------
\* str.split(c) for a one-character separator: '' gives [''], 'a/' gives ['a', '']
RECURSIVE split(_, _)
split(s, c) ==
    IF s = <<>> THEN << <<>> >>
    ELSE IF Head(s) = c THEN << <<>> >> \o split(Tail(s), c)
    ELSE LET r == split(Tail(s), c)
         IN  << <<Head(s)>> \o Head(r) >> \o Tail(r)

\* c.join(list)
RECURSIVE join(_, _)
join(list, c) ==
    IF list = <<>> THEN <<>>
    ELSE IF Len(list) = 1 THEN Head(list)
    ELSE Head(list) \o <<c>> \o join(Tail(list), c)

\* input.startswith(i)
startswith(input, i) ==
    /\ Len(i) <= Len(input)
    /\ SubSeq(input, 1, Len(i)) = i

\* str.replace(old, ''): every non-overlapping occurrence of old, scanning from
\* the left, is removed; an empty old leaves the string as it is
RECURSIVE replace(_, _)
replace(s, old) ==
    IF old = <<>> \/ s = <<>> THEN s
    ELSE IF startswith(s, old) THEN replace(SubSeq(s, Len(old) + 1, Len(s)), old)
    ELSE <<Head(s)>> \o replace(Tail(s), old)

\* filter(None, list): the non-empty strings of list, in order
filter(list) == SelectSeq(list, LAMBDA x : x # <<>>)

\* x in list
contains(list, x) == \E k \in 1..Len(list) : list[k] = x

\* ------------------------------------------------------------------------
\* awsiot.tokenizer
\* ------------------------------------------------------------------------
\* the loop run once more, on the emptied list: a last candidate built on the
\* empty prefix
RECURSIVE tokenizer_loop_to_empty(_, _, _)
tokenizer_loop_to_empty(tmp_list, c, suffix_) ==
    LET cand == IF suffix_ # None /\ suffix_ # <<>>
                THEN join(tmp_list, c) \o <<c>> \o suffix_
                ELSE join(tmp_list, c)
    IN  IF Len(tmp_list) = 0 THEN <<cand>>
        ELSE <<cand>> \o tokenizer_loop_to_empty(SubSeq(tmp_list, 1, Len(tmp_list) - 1), c, suffix_)

\* the while loop of tokenizer: one candidate per pop of tmp_list
RECURSIVE tokenizer_loop(_, _, _)
tokenizer_loop(tmp_list, c, suffix_) ==
    IF Len(tmp_list) = 0 THEN <<>>
    ELSE LET cand == IF suffix_ # None /\ suffix_ # <<>>
                     THEN join(tmp_list, c) \o <<c>> \o suffix_
                     ELSE join(tmp_list, c)
         IN  <<cand>> \o tokenizer_loop(SubSeq(tmp_list, 1, Len(tmp_list) - 1), c, suffix_)

tokenizer(s, c, suffix_) == tokenizer_loop(split(s, c), c, suffix_)

\* ------------------------------------------------------------------------
\* awsiot.topic_search
\* ------------------------------------------------------------------------
\* what a call of topic_search produces: a (command, arg) tuple, the bare
\* None of falling off the end of the function, or a raised TypeError
Tuple(command, arg) == [kind |-> "tuple", command |-> command, arg |-> arg]
BareNone == [kind |-> "None", command |-> None, arg |-> None]
TypeError == [kind |-> "TypeError", command |-> None, arg |-> None]

\* temp.pop(0) twice: the command and the argument left after removing i
command_of(input, i) ==
    LET temp == filter(split(replace(input, i), "/"))
    IN  IF Len(temp) > 0 THEN temp[1] ELSE None

arg_of(input, i) ==
    LET temp == filter(split(replace(input, i), "/"))
    IN  IF Len(temp) > 1 THEN temp[2] ELSE None

\* the list named commands, for a command that was found (commands stays
\* None otherwise, and search_body does not ask for it then)
commands_of(topic, command, arg) ==
    IF arg # None
    THEN tokenizer(topic, "/", command \o <<"/">> \o arg)
    ELSE tokenizer(topic, "/", command)

\* search_body accepting an input that only starts with one of commands
search_body_prefix(topic_, input_, i) ==
    LET command == command_of(input_, i)
        arg == arg_of(input_, i)
        commands == commands_of(topic_, command, arg)
    IN  IF command = None THEN TypeError
        ELSE IF \E k \in 1..Len(commands) : startswith(input_, commands[k])
             THEN Tuple(command, arg)
             ELSE Tuple(None, None)

\* search_body without the comparison of input against commands
search_body_unchecked(topic, input, i) ==
    LET command == command_of(input, i)
        arg == arg_of(input, i)
    IN  IF command = None THEN TypeError ELSE Tuple(command, arg)

\* the body of the if inside the loop, for the candidate i; with no command
\* commands is None and "input in commands" raises TypeError
search_body(topic, input, i) ==
    LET command == command_of(input, i)
        arg == arg_of(input, i)
    IN  IF command = None THEN TypeError
        ELSE IF contains(commands_of(topic, command, arg), input) THEN Tuple(command, arg)
        ELSE Tuple(None, None)

\* the for loop: the first candidate input starts with decides the result
RECURSIVE search_loop(_, _, _)
search_loop(topics, topic, input) ==
    IF topics = <<>> THEN BareNone
    ELSE IF startswith(input, Head(topics)) THEN search_body(topic, input, Head(topics))
    ELSE search_loop(Tail(topics), topic, input)

topic_search(topic, input) == search_loop(tokenizer(topic, "/", None), topic, input)

\* ------------------------------------------------------------------------
\* State
\* ------------------------------------------------------------------------
VARIABLES
    topic,          \* the pattern handed to topic_search
    input,          \* the concrete topic handed to topic_search
    ret,            \* what topic_search produced, NotCalled before the call
    serial,         \* TRUE: calls on a session are serialized (one thread or a mutex)
    connected,      \* Session._connected, per session
    connectCalls,   \* invocations of the transport's connect, per session
    connectFails,   \* those that raised, per session
    directConnects, \* calls of Session.connect() made by the caller, per session
    sendCalls,      \* invocations of the transport's publish / subscribe, per session
    sendFails,      \* those that raised, per session
    delivered,      \* topics the transport accepted (published or subscribed), per session
    completed,      \* publish / subscribe calls that returned or raised, per session
    calls,          \* calls started so far
    pc,             \* where each thread is inside its call
    cur,            \* the call each thread is making
    outcome,        \* how each thread's last call ended
    callConnects,   \* transport connects made inside each thread's current call
    suffix,         \* the suffix handed to tokenizer
    res,            \* the list tokenizer returned, NoList before the call
    argsTopic,      \* args.topic of supervisor_sub: the configured patterns
    argsThing,      \* args.thing of supervisor_sub, None when not set
    msgs,           \* messages delivered so far
    supMsg,         \* the message the supervisor callback is handling
    supIdx,         \* position of the callback in "for topic in args.topic", 0 outside
    supRets,        \* awsiot.topic_search(topic, message.topic), per configured pattern
    supEscaped,     \* the exception that left the callback for this message
    runs,           \* calls of topic_search made for this message
    acted,          \* verb branches entered for this message
    rpcLog,         \* calls made to proxy.supervisor: <<method, argument>>
    rpcFails,       \* those that raised
    infoReturned,   \* getAllProcessInfo calls that returned
    warnings,       \* logging.warning calls of the callback
    errors,         \* logging.error calls of the callback
    publishersBuilt, \* awsiot.Publisher objects built by the callback
    pubConnected,   \* _connected of the Publisher built last
    pubConnects,    \* transport connects made by those Publishers
    pubConnectFails, \* those that raised
    pubSends,       \* transport publishes made by those Publishers
    pubTopics,      \* the topics of those publishes
    camBuckets,     \* TRUE when camera_sub's --bucket options are given
    camMsg,         \* the message the camera callback handled last
    camBranch,      \* the branch of the camera callback that message took
    camTwin,        \* the branch the same topic takes with each other payload
    camEscaped,     \* the exception that left the camera callback
    files,          \* the local files present
    s3objects,      \* the objects uploaded to the bucket
    s3tagged,       \* the objects that carry tags
    mv              \* the last call of awsiot.mv_to_s3

topicVars == <<topic, input, ret>>
sessionVars == <<serial, connected, connectCalls, connectFails, directConnects,
                 sendCalls, sendFails, delivered, completed, calls, pc, cur,
                 outcome, callConnects>>
vars == <<topic, input, ret, serial, connected, connectCalls, connectFails,
          directConnects, sendCalls, sendFails, delivered, completed, calls, pc,
          cur, outcome, callConnects, suffix, res, argsTopic, argsThing, msgs,
          supMsg, supIdx, supRets, supEscaped, runs, acted, rpcLog, rpcFails,
          infoReturned, warnings, errors, publishersBuilt, pubConnected, pubConnects,
          pubConnectFails, pubSends, pubTopics, camBuckets, camMsg, camBranch,
          camTwin, camEscaped, files, s3objects, s3tagged, mv>>

camVars == <<camBuckets, camMsg, camBranch, camTwin, camEscaped, files, s3objects,
             s3tagged, mv>>
tokVars == <<suffix, res>>
supVars == <<argsTopic, argsThing, msgs, supMsg, supIdx, supRets, supEscaped, runs, acted,
             rpcLog, rpcFails, infoReturned, warnings, errors, publishersBuilt,
             pubConnected, pubConnects, pubConnectFails, pubSends, pubTopics>>
restVars == <<tokVars, supVars, camVars>>

\* no list yet
NoList == <<None>>

\* no message yet
NoMsg == [topic |-> <<>>, payload |-> "none"]

\* the supervisor subscriber before its first message
InitSupervisor ==
    /\ msgs = 0
    /\ supMsg = NoMsg
    /\ supIdx = 0
    /\ supRets = <<>>
    /\ supEscaped = "none"
    /\ runs = 0
    /\ acted = 0
    /\ rpcLog = <<>>
    /\ rpcFails = 0
    /\ infoReturned = 0
    /\ warnings = 0
    /\ errors = 0
    /\ publishersBuilt = 0
    /\ pubConnected = FALSE
    /\ pubConnects = 0
    /\ pubConnectFails = 0
    /\ pubSends = 0
    /\ pubTopics = {}

\* mv_to_s3 not called
NoMv == [called |-> FALSE, file |-> "none", existed |-> FALSE, uploaded |-> FALSE,
         tagFailed |-> FALSE, rmFailed |-> FALSE]

\* the camera subscriber before its first message
InitCamera ==
    /\ camMsg = NoMsg
    /\ camBranch = "none"
    /\ camTwin = {}
    /\ camEscaped = "none"
    /\ files = {}
    /\ s3objects = {}
    /\ s3tagged = {}
    /\ mv = NoMv

\* the tokenizer not called
InitTokIdle ==
    /\ suffix = None
    /\ res = NoList

\* the devices not configured
InitDevicesIdle ==
    /\ argsTopic = <<>>
    /\ argsThing = None
    /\ InitSupervisor
    /\ camBuckets = FALSE
    /\ InitCamera

\* the state of the parts a specification leaves alone
InitRest ==
    /\ InitTokIdle
    /\ InitDevicesIdle

NotCalled == [kind |-> "NotCalled", command |-> None, arg |-> None]

\* the two session classes; one object of each
Sessions == {"Publisher", "Subscriber"}
\* the threads that share the sessions
Threads == {"T1", "T2"}
\* the topics published or subscribed to
Topics == {"x", "y"}
\* the operation each class offers besides connect
OpOf(s) == IF s = "Publisher" THEN "publish" ELSE "subscribe"
NoCall == [session |-> "Publisher", op |-> "none", topic |-> "x"]

\* Publisher.__init__ / Subscriber.__init__ and the idle threads
InitSessions ==
    /\ connected = [s \in Sessions |-> FALSE]
    /\ connectCalls = [s \in Sessions |-> 0]
    /\ connectFails = [s \in Sessions |-> 0]
    /\ directConnects = [s \in Sessions |-> 0]
    /\ sendCalls = [s \in Sessions |-> 0]
    /\ sendFails = [s \in Sessions |-> 0]
    /\ delivered = [s \in Sessions |-> <<>>]
    /\ completed = [s \in Sessions |-> 0]
    /\ calls = 0
    /\ pc = [t \in Threads |-> "idle"]
    /\ cur = [t \in Threads |-> NoCall]
    /\ outcome = [t \in Threads |-> "none"]
    /\ callConnects = [t \in Threads |-> 0]

\* ------------------------------------------------------------------------
\* The matcher: topic_search applied to every pattern and concrete topic
\* ------------------------------------------------------------------------
\* the pattern is any string of the command line; the concrete topic is the
\* topic of a delivered MQTT message, which has at least one character
InitTopic ==
    /\ topic \in Strings(MaxPatLen)
    /\ input \in Strings(MaxTopicLen) \ {<<>>}
    /\ ret = NotCalled
    /\ serial = TRUE
    /\ InitSessions
    /\ InitRest

Search ==
    /\ ret = NotCalled
    /\ ret' = topic_search(topic, input)
    /\ UNCHANGED <<topic, input>>
    /\ UNCHANGED sessionVars
    /\ UNCHANGED restVars

NextTopic == Search

SpecTopic == InitTopic /\ [][NextTopic]_vars

\* ------------------------------------------------------------------------
\* The sessions: Publisher / Subscriber, called from the threads
\* ------------------------------------------------------------------------
InitSession ==
    /\ topic = <<>>
    /\ input = <<>>
    /\ ret = NotCalled
    /\ serial \in BOOLEAN
    /\ InitSessions
    /\ InitRest

\* a thread enters connect(), publish() or subscribe() of a session; with
\* serialized use no other thread is inside a call
Call(t, s, op, tp) ==
    /\ pc[t] = "idle"
    /\ calls < MaxCalls
    /\ serial => \A u \in Threads : pc[u] = "idle"
    /\ op \in {"connect", OpOf(s)}
    /\ calls' = calls + 1
    /\ cur' = [cur EXCEPT ![t] = [session |-> s, op |-> op, topic |-> tp]]
    /\ pc' = [pc EXCEPT ![t] = IF op = "connect" THEN "connect" ELSE "check"]
    /\ directConnects' = [directConnects EXCEPT ![s] = IF op = "connect" THEN @ + 1 ELSE @]
    /\ outcome' = [outcome EXCEPT ![t] = "none"]
    /\ callConnects' = [callConnects EXCEPT ![t] = 0]
    /\ UNCHANGED <<connected, connectCalls, connectFails, sendCalls, sendFails,
                   delivered, completed, serial>>
    /\ UNCHANGED topicVars
    /\ UNCHANGED restVars

\* the guard that connects whatever self.connected says
AlwaysConnect(t) ==
    /\ pc[t] = "check"
    /\ pc' = [pc EXCEPT ![t] = "connect"]
    /\ UNCHANGED <<connected, connectCalls, connectFails, directConnects, sendCalls,
                   sendFails, delivered, completed, calls, cur, outcome,
                   callConnects, serial>>
    /\ UNCHANGED topicVars
    /\ UNCHANGED restVars

\* the guard that never connects
NeverConnect(t) ==
    /\ pc[t] = "check"
    /\ pc' = [pc EXCEPT ![t] = "send"]
    /\ UNCHANGED <<connected, connectCalls, connectFails, directConnects, sendCalls,
                   sendFails, delivered, completed, calls, cur, outcome,
                   callConnects, serial>>
    /\ UNCHANGED topicVars
    /\ UNCHANGED restVars

\* "if not self.connected:" of publish / subscribe
CheckConnected(t) ==
    /\ pc[t] = "check"
    /\ pc' = [pc EXCEPT ![t] = IF connected[cur[t].session] THEN "send" ELSE "connect"]
    /\ UNCHANGED <<connected, connectCalls, connectFails, directConnects, sendCalls,
                   sendFails, delivered, completed, calls, cur, outcome,
                   callConnects, serial>>
    /\ UNCHANGED topicVars
    /\ UNCHANGED restVars

\* a failed transport connect that is tried again inside the call
ConnectRetried(t) ==
    LET s == cur[t].session
    IN  /\ pc[t] = "connect"
        /\ connectCalls' = [connectCalls EXCEPT ![s] = @ + 1]
        /\ callConnects' = [callConnects EXCEPT ![t] = @ + 1]
        /\ connectFails' = [connectFails EXCEPT ![s] = @ + 1]
        /\ callConnects[t] < 2
        /\ UNCHANGED <<connected, directConnects, sendCalls, sendFails, delivered,
                       completed, calls, pc, cur, outcome, serial>>
        /\ UNCHANGED topicVars
        /\ UNCHANGED restVars

\* a failed transport connect; the exception leaves connect() and the
\* publish / subscribe that called it
ConnectRaises(t) ==
    LET s == cur[t].session
    IN  /\ pc[t] = "connect"
        /\ connectCalls' = [connectCalls EXCEPT ![s] = @ + 1]
        /\ callConnects' = [callConnects EXCEPT ![t] = @ + 1]
        /\ connectFails' = [connectFails EXCEPT ![s] = @ + 1]
        /\ outcome' = [outcome EXCEPT ![t] = "ConnectError"]
        /\ completed' = [completed EXCEPT ![s] = IF cur[t].op = "connect" THEN @ ELSE @ + 1]
        /\ pc' = [pc EXCEPT ![t] = "idle"]
        /\ UNCHANGED <<connected, directConnects, sendCalls, sendFails, delivered,
                       calls, cur, serial>>
        /\ UNCHANGED topicVars
        /\ UNCHANGED restVars

\* self._client.connect() returning
ConnectSucceeds(t) ==
    LET s == cur[t].session
    IN  /\ pc[t] = "connect"
        /\ connectCalls' = [connectCalls EXCEPT ![s] = @ + 1]
        /\ callConnects' = [callConnects EXCEPT ![t] = @ + 1]
        /\ pc' = [pc EXCEPT ![t] = "set"]
        /\ UNCHANGED <<connected, connectFails, directConnects, sendCalls, sendFails,
                       delivered, completed, calls, cur, outcome, serial>>
        /\ UNCHANGED topicVars
        /\ UNCHANGED restVars

\* connect() that forgets to record the connection
SetConnectedForgotten(t) ==
    /\ pc[t] = "set"
    /\ pc' = [pc EXCEPT ![t] = IF cur[t].op = "connect" THEN "idle" ELSE "send"]
    /\ outcome' = [outcome EXCEPT ![t] = IF cur[t].op = "connect" THEN "returned" ELSE @]
    /\ UNCHANGED <<connected, connectCalls, connectFails, directConnects, sendCalls,
                   sendFails, delivered, completed, calls, cur, callConnects, serial>>
    /\ UNCHANGED topicVars
    /\ UNCHANGED restVars

\* "self._connected = True"; connect() returns, to its caller or into
\* publish / subscribe
SetConnected(t) ==
    LET s == cur[t].session
    IN  /\ pc[t] = "set"
        /\ connected' = [connected EXCEPT ![s] = TRUE]
        /\ pc' = [pc EXCEPT ![t] = IF cur[t].op = "connect" THEN "idle" ELSE "send"]
        /\ outcome' = [outcome EXCEPT ![t] = IF cur[t].op = "connect" THEN "returned" ELSE @]
        /\ UNCHANGED <<connectCalls, connectFails, directConnects, sendCalls, sendFails,
                       delivered, completed, calls, cur, callConnects, serial>>
        /\ UNCHANGED topicVars
        /\ UNCHANGED restVars

\* self._client.publish(...) / self._client.subscribe(...) returning
SendSucceeds(t) ==
    LET s == cur[t].session
    IN  /\ pc[t] = "send"
        /\ sendCalls' = [sendCalls EXCEPT ![s] = @ + 1]
        /\ delivered' = [delivered EXCEPT ![s] = Append(@, cur[t].topic)]
        /\ completed' = [completed EXCEPT ![s] = @ + 1]
        /\ outcome' = [outcome EXCEPT ![t] = "returned"]
        /\ pc' = [pc EXCEPT ![t] = "idle"]
        /\ UNCHANGED <<connected, connectCalls, connectFails, directConnects, sendFails,
                       calls, cur, callConnects, serial>>
        /\ UNCHANGED topicVars
        /\ UNCHANGED restVars

\* a failed send that marks the session disconnected
SendRaisesDisconnecting(t) ==
    LET s == cur[t].session
    IN  /\ pc[t] = "send"
        /\ sendCalls' = [sendCalls EXCEPT ![s] = @ + 1]
        /\ sendFails' = [sendFails EXCEPT ![s] = @ + 1]
        /\ completed' = [completed EXCEPT ![s] = @ + 1]
        /\ outcome' = [outcome EXCEPT ![t] = "SendError"]
        /\ pc' = [pc EXCEPT ![t] = "idle"]
        /\ connected' = [connected EXCEPT ![s] = FALSE]
        /\ UNCHANGED <<connectCalls, connectFails, directConnects, delivered,
                       calls, cur, callConnects, serial>>
        /\ UNCHANGED topicVars
        /\ UNCHANGED restVars

\* self._client.publish(...) / self._client.subscribe(...) raising
SendRaises(t) ==
    LET s == cur[t].session
    IN  /\ pc[t] = "send"
        /\ sendCalls' = [sendCalls EXCEPT ![s] = @ + 1]
        /\ sendFails' = [sendFails EXCEPT ![s] = @ + 1]
        /\ completed' = [completed EXCEPT ![s] = @ + 1]
        /\ outcome' = [outcome EXCEPT ![t] = "SendError"]
        /\ pc' = [pc EXCEPT ![t] = "idle"]
        /\ UNCHANGED <<connected, connectCalls, connectFails, directConnects, delivered,
                       calls, cur, callConnects, serial>>
        /\ UNCHANGED topicVars
        /\ UNCHANGED restVars

Next ==
    \/ \E t \in Threads, s \in Sessions, op \in {"connect", "publish", "subscribe"},
          tp \in Topics : Call(t, s, op, tp)
    \/ \E t \in Threads : CheckConnected(t)
    \/ \E t \in Threads : ConnectRaises(t)
    \/ \E t \in Threads : ConnectSucceeds(t)
    \/ \E t \in Threads : SetConnected(t)
    \/ \E t \in Threads : SendSucceeds(t)
    \/ \E t \in Threads : SendRaises(t)

Spec == InitSession /\ [][Next]_vars

\* ------------------------------------------------------------------------
\* Properties of the sessions (checked under Spec)
\* ------------------------------------------------------------------------
\* the session took only lazy connects, and none of them failed
LazyOnly(s) == directConnects[s] = 0
NoConnectFailure(s) == connectFails[s] = 0

\* C1: a session is created Disconnected; with calls made one after another,
\* no explicit connect() and a transport connect that succeeds, after N >= 1
\* finished publish (subscribe) calls the session is Connected and the
\* transport's connect has been invoked exactly once.
C1_LazyConnectOnce ==
    \A s \in Sessions :
        /\ connectCalls[s] = 0 => ~connected[s]
        /\ (serial /\ LazyOnly(s) /\ NoConnectFailure(s) /\ completed[s] >= 1)
               => (connected[s] /\ connectCalls[s] = 1)

C1_Witness ==
    \A s \in Sessions :
        /\ serial /\ LazyOnly(s) /\ NoConnectFailure(s)
        /\ completed[s] >= 1
        /\ completed["Publisher"] >= 2
        /\ connected[s] /\ connectCalls[s] = 1

\* C2 as claimed: with every connect going through the lazy-connect guard, a
\* session attempts at most one transport connect, failed connects included.
C2_AtMostOneAttempt ==
    \A s \in Sessions : (serial /\ LazyOnly(s)) => connectCalls[s] <= 1

\* C2 as amended: with every connect going through the lazy-connect guard, a
\* session attempts at most one transport connect more than the number of
\* its connects that failed; so at most one connect succeeds, and a connect
\* is attempted again only after a failed one.
C2_OneAttemptPerFailure ==
    \A s \in Sessions : (serial /\ LazyOnly(s)) => connectCalls[s] <= connectFails[s] + 1

C2_Witness ==
    \E s \in Sessions :
        /\ serial /\ LazyOnly(s)
        /\ connectFails[s] = 1 /\ connectCalls[s] = 2
        /\ connected[s] /\ completed[s] >= 2

\* C3: when the calls on a session are serialized, the transport's connect is
\* never invoked twice by lazy connects that succeed; without serialization
\* two threads can both pass the check of connected and both connect (the
\* state C3_RaceWitness).
C3_SerializedConnectsOnce ==
    \A s \in Sessions :
        (LazyOnly(s) /\ NoConnectFailure(s) /\ connectCalls[s] >= 2) => ~serial

C3_RaceWitness ==
    \E s \in Sessions :
        /\ ~serial
        /\ LazyOnly(s) /\ NoConnectFailure(s)
        /\ connectCalls[s] = 2
        /\ \A t \in Threads : cur[t].session = s /\ cur[t].op = OpOf(s) /\ callConnects[t] = 1

\* the step in which thread t's transport connect fails
ConnectFailsIn(t) ==
    /\ pc[t] = "connect"
    /\ callConnects'[t] # callConnects[t]
    /\ connectFails'[cur[t].session] > connectFails[cur[t].session]

\* C4: a transport connect that fails, in connect() or in the lazy connect of
\* publish / subscribe, ends the call with the error, leaves connected as it
\* was (Disconnected, for a lazy connect), sends nothing and registers
\* nothing, and is the only connect attempted in that call.
C4_ConnectFailureSurfaced ==
    [][\A t \in Threads :
          ConnectFailsIn(t) =>
              /\ pc'[t] = "idle"
              /\ outcome'[t] = "ConnectError"
              /\ callConnects'[t] = 1
              /\ connected' = connected
              /\ (serial /\ cur[t].op # "connect") => ~connected'[cur[t].session]
              /\ sendCalls' = sendCalls
              /\ delivered' = delivered]_vars

C4_Witness ==
    \E t \in Threads :
        /\ pc[t] = "idle" /\ outcome[t] = "ConnectError"
        /\ cur[t].op = "publish"
        /\ callConnects[t] = 1
        /\ ~connected[cur[t].session]
        /\ sendCalls[cur[t].session] = 0

\* C5: once a session is Connected it is Connected in every later state,
\* whatever connect, publish and subscribe calls follow and whichever of
\* their transport operations fail.
C5_ConnectedForever ==
    [][\A s \in Sessions : connected[s] => connected'[s]]_vars

C5_Witness ==
    \E s \in Sessions :
        /\ connected[s]
        /\ sendFails[s] >= 1 /\ connectFails[s] >= 1
        /\ connectCalls[s] >= 2

\* C6: with serialized use, the transport's publish (subscribe) is invoked
\* only while the session is Connected: a publish or subscribe on a
\* Disconnected session connects first.
C6_SendOnlyConnected ==
    [][serial => \A s \in Sessions : sendCalls'[s] > sendCalls[s] => connected[s]]_vars

C6_Witness ==
    \E s \in Sessions :
        /\ serial /\ LazyOnly(s)
        /\ connectCalls[s] = 1 /\ connected[s]
        /\ sendCalls[s] = 1 /\ completed[s] = 1

\* ------------------------------------------------------------------------
\* Properties of the matcher (checked under SpecTopic)
\* ------------------------------------------------------------------------
Called == ret # NotCalled
ReturnsCommand == ret.kind = "tuple" /\ ret.command # None

\* C7: when topic_search returns a command c, the concrete topic is one of
\* the candidates of tokenizer(topic, '/', c), or of
\* tokenizer(topic, '/', c + '/' + a) when an argument a came with it.
C7_RoundTrip ==
    ReturnsCommand =>
        IF ret.arg = None
        THEN contains(tokenizer(topic, "/", ret.command), input)
        ELSE contains(tokenizer(topic, "/", ret.command \o <<"/">> \o ret.arg), input)

C7_Witness ==
    /\ ReturnsCommand
    /\ ret.arg # None
    /\ topic # <<>>
    /\ input = topic \o <<"/">> \o ret.command \o <<"/">> \o ret.arg

\* a topic in the usual form: no empty segment, so no leading, trailing or
\* doubled separator
Plain(x) == \A k \in 1..Len(split(x, "/")) : split(x, "/")[k] # <<>>

\* non-empty segments without a separator
Segments == {x \in Strings(MaxTopicLen) : x # <<>> /\ \A k \in 1..Len(x) : x[k] # "/"}

\* C8: topic_search(P, P + '/' + c) returns (c, None) and
\* topic_search(P, P + '/' + c + '/' + a) returns (c, a) for all non-empty
\* separator-free c and a, also when c or a contain or equal the text of P
\* (stated for the patterns in the usual form).
C8_CommandAfterPattern ==
    (Called /\ Plain(topic)) =>
        \A c \in Segments :
            /\ input = topic \o <<"/">> \o c => ret = Tuple(c, None)
            /\ \A a \in Segments :
                   input = topic \o <<"/">> \o c \o <<"/">> \o a => ret = Tuple(c, a)

\* the candidate prefix p reconstructs the concrete topic exactly
Reconstructs(p) ==
    /\ startswith(input, p)
    /\ command_of(input, p) # None
    /\ contains(commands_of(topic, command_of(input, p), arg_of(input, p)), input)

\* C9: topic_search returns a command whenever some candidate prefix of the
\* pattern reconstructs the concrete topic exactly, and only then (stated for
\* patterns and concrete topics in the usual form).
C9_AnyCandidateMatches ==
    (Called /\ Plain(topic) /\ Plain(input)) =>
        (ReturnsCommand <=>
            \E k \in 1..Len(tokenizer(topic, "/", None)) :
                Reconstructs(tokenizer(topic, "/", None)[k]))

\* the concrete topic carries no command: it starts with no candidate prefix,
\* or it is the pattern or one of its candidate prefixes
CarriesNoCommand ==
    LET topics == tokenizer(topic, "/", None)
    IN  \/ \A k \in 1..Len(topics) : ~startswith(input, topics[k])
        \/ contains(topics, input)

\* C10: for a concrete topic that carries no command, topic_search returns
\* (None, None) and raises nothing (stated for patterns and concrete topics in
\* the usual form).
C10_NoCommandNoMatch ==
    (Called /\ Plain(topic) /\ Plain(input) /\ CarriesNoCommand) => ret = Tuple(None, None)

\* the first candidate of the pattern the concrete topic starts with
MatchedCandidate ==
    LET topics == tokenizer(topic, "/", None)
        k == CHOOSE j \in 1..Len(topics) :
                 /\ startswith(input, topics[j])
                 /\ \A h \in 1..(j - 1) : ~startswith(input, topics[h])
    IN  topics[k]

\* what follows the prefix p in the concrete topic
After(p) == SubSeq(input, Len(p) + 1, Len(input))

\* x is '/c' or '/c/a' with non-empty separator-free c and a
OneOrTwoSegments(x) ==
    LET parts == split(x, "/")
    IN  /\ Len(parts) \in {2, 3}
        /\ parts[1] = <<>>
        /\ \A j \in 2..Len(parts) : parts[j] # <<>>

\* C17: when topic_search returns a command, the concrete topic has one or two
\* non-empty segments after the matched candidate prefix, never three or more,
\* and it is exactly a candidate prefix followed by one or two segments.
C17_NoPartialMatch ==
    ReturnsCommand =>
        /\ Len(filter(split(After(MatchedCandidate), "/"))) \in {1, 2}
        /\ \E k \in 1..Len(tokenizer(topic, "/", None)) :
               /\ startswith(input, tokenizer(topic, "/", None)[k])
               /\ OneOrTwoSegments(After(tokenizer(topic, "/", None)[k]))

C17_Witness ==
    /\ ReturnsCommand
    /\ Plain(topic) /\ Len(topic) = 3
    /\ ret.arg # None
    /\ MatchedCandidate # topic
    /\ Len(filter(split(After(MatchedCandidate), "/"))) = 2

\* ------------------------------------------------------------------------
\* The tokenizer applied to every path and suffix
\* ------------------------------------------------------------------------
\* the suffix 'cmd'
Cmd == <<"c", "m", "d">>

\* the suffixes handed to tokenizer: None, the short strings ('' included)
\* and 'cmd'
Suffixes == {None} \cup Strings(MaxSuffixLen) \cup {Cmd}

InitTokenizer ==
    /\ topic \in Strings(MaxPatLen)
    /\ suffix \in Suffixes
    /\ res = NoList
    /\ input = <<>>
    /\ ret = NotCalled
    /\ serial = TRUE
    /\ InitSessions
    /\ InitDevicesIdle

\* res = tokenizer(topic, '/', suffix)
Tokenize ==
    /\ res = NoList
    /\ res' = tokenizer(topic, "/", suffix)
    /\ UNCHANGED <<topic, input, ret, suffix>>
    /\ UNCHANGED sessionVars
    /\ UNCHANGED supVars
    /\ UNCHANGED camVars

NextTokenizer == Tokenize

SpecTokenizer == InitTokenizer /\ [][NextTokenizer]_vars

\* ------------------------------------------------------------------------
\* Properties of the tokenizer (checked under SpecTokenizer)
\* ------------------------------------------------------------------------
Tokenized == res # NoList
\* the segments of the path, and the path cut after its first n segments
Segs == split(topic, "/")
Truncation(n) == join(SubSeq(Segs, 1, n), "/")
\* the string x with the suffix appended as the code appends it
WithSuffix(x) == x \o <<"/">> \o suffix

C12_SuffixAppended ==
    (Tokenized /\ Plain(topic)) =>
        /\ Len(res) = Len(Segs)
        /\ \A k \in 1..Len(res) :
               res[k] = IF suffix = None
                        THEN Truncation(Len(Segs) - k + 1)
                        ELSE WithSuffix(Truncation(Len(Segs) - k + 1))

\* ------------------------------------------------------------------------
\* The supervisor command router: supervisor_sub.callback
\* ------------------------------------------------------------------------
\* number of messages delivered in one run
MaxMessages == 2

GetAllProcessInfo == <<"g", "e", "t", "A", "l", "l", "P", "r", "o", "c", "e", "s", "s", "I", "n", "f", "o">>
StartProcess == <<"s", "t", "a", "r", "t", "P", "r", "o", "c", "e", "s", "s">>
StopProcess == <<"s", "t", "o", "p", "P", "r", "o", "c", "e", "s", "s">>
Other == <<"o", "t", "h", "e", "r">>
Verbs == {GetAllProcessInfo, StartProcess, StopProcess}

\* topic segments of the configuration and of the messages
SegX == <<"x">>
SegXY == <<"x", "/", "y">>
SegZ == <<"z">>
\* a process name
Proc == <<"p">>
\* the thing name of --thing
Thing == <<"t">>

\* the values of args.topic
TopicConfigs == {<<SegX>>, <<SegXY, SegX>>, <<SegX, SegZ>>}

\* what follows the prefix in the topic of a message
Tails ==
    {<<>>} \cup
    {<<"/">> \o v : v \in Verbs \cup {Other}} \cup
    {<<"/">> \o v \o <<"/">> \o Proc : v \in Verbs}

\* the topics of the messages delivered to the supervisor callback
SupTopics == {pre \o tail : pre \in {SegX, SegXY}, tail \in Tails}

\* the payloads of the messages: two JSON documents and a malformed one
Payloads == {"{}", "1", "{"}

\* awsiot.iot_thing_topic
iot_thing_topic(thing) == <<"$aws/things/">> \o thing \o <<"/shadow/update">>

\* a Publisher that is kept from one command to the next
KeptPublisher(prev) == prev

\* Publisher.__init__: the _connected of a Publisher just built
NewPublisher(prev) == FALSE

\* Publisher.publish on a Publisher whose _connected is conn, for a transport
\* whose connect and publish succeed or raise
publish_effect(conn, connOK, sendOK) ==
    [connects |-> IF conn THEN 0 ELSE 1,
     connectFails |-> IF ~conn /\ ~connOK THEN 1 ELSE 0,
     connected |-> conn \/ connOK,
     sends |-> IF conn \/ connOK THEN 1 ELSE 0,
     raised |-> IF ~conn /\ ~connOK THEN "ConnectError"
                ELSE IF ~sendOK THEN "SendError" ELSE "none"]

InitDevices ==
    /\ argsTopic \in TopicConfigs
    /\ argsThing \in {Thing, None}
    /\ InitSupervisor
    /\ camBuckets = FALSE
    /\ InitCamera
    /\ topic = <<>>
    /\ input = <<>>
    /\ ret = NotCalled
    /\ serial = TRUE
    /\ InitSessions
    /\ InitTokIdle

\* the pattern of the current iteration and what topic_search makes of it
CurPattern == argsTopic[supIdx]
CurRet == supRets[supIdx]
\* the loop variable after this iteration; 0 when the loop is over
NextIdx == IF supIdx = Len(argsTopic) THEN 0 ELSE supIdx + 1

\* the transport delivers a message to the callback
SupDeliver(tp, pl) ==
    /\ supIdx = 0
    /\ msgs < MaxMessages
    /\ msgs' = msgs + 1
    /\ supMsg' = [topic |-> tp, payload |-> pl]
    /\ supIdx' = 1
    /\ supRets' = [k \in 1..Len(argsTopic) |-> topic_search(argsTopic[k], tp)]
    /\ supEscaped' = "none"
    /\ runs' = 0
    /\ acted' = 0
    /\ UNCHANGED <<argsTopic, argsThing, rpcLog, rpcFails, infoReturned, warnings,
                   errors, publishersBuilt, pubConnected, pubConnects,
                   pubConnectFails, pubSends, pubTopics>>
    /\ UNCHANGED <<topicVars, sessionVars, tokVars, camVars>>

\* "cmd, arg = awsiot.topic_search(...)" raises: topic_search raised, or it
\* returned a bare None that cannot be unpacked
SupMatchRaises ==
    /\ supIdx > 0
    /\ CurRet.kind # "tuple"
    /\ runs' = runs + 1
    /\ supEscaped' = "TypeError"
    /\ supIdx' = 0
    /\ UNCHANGED <<argsTopic, argsThing, msgs, supMsg, supRets, acted, rpcLog, rpcFails,
                   infoReturned, warnings, errors, publishersBuilt, pubConnected,
                   pubConnects, pubConnectFails, pubSends, pubTopics>>
    /\ UNCHANGED <<topicVars, sessionVars, tokVars, camVars>>

\* the branch cmd == 'getAllProcessInfo'
SupGetAllProcessInfo(rpcOK, connOK, sendOK) ==
    LET publishing == rpcOK /\ argsThing # None /\ argsThing # <<>>
        eff == publish_effect(NewPublisher(pubConnected), connOK, sendOK)
        raised == IF ~rpcOK THEN "RPCError"
                  ELSE IF publishing THEN eff.raised ELSE "none"
    IN  /\ supIdx > 0
        /\ CurRet.kind = "tuple"
        /\ CurRet.command = GetAllProcessInfo
        /\ runs' = runs + 1
        /\ acted' = acted + 1
        /\ rpcLog' = Append(rpcLog, <<GetAllProcessInfo, None>>)
        /\ rpcFails' = IF rpcOK THEN rpcFails ELSE rpcFails + 1
        /\ infoReturned' = IF rpcOK THEN infoReturned + 1 ELSE infoReturned
        /\ publishersBuilt' = IF publishing THEN publishersBuilt + 1 ELSE publishersBuilt
        /\ pubConnected' = IF publishing THEN eff.connected ELSE pubConnected
        /\ pubConnects' = IF publishing THEN pubConnects + eff.connects ELSE pubConnects
        /\ pubConnectFails' = IF publishing THEN pubConnectFails + eff.connectFails
                               ELSE pubConnectFails
        /\ pubSends' = IF publishing THEN pubSends + eff.sends ELSE pubSends
        /\ pubTopics' = IF publishing /\ eff.sends > 0
                         THEN pubTopics \cup {iot_thing_topic(argsThing)}
                         ELSE pubTopics
        /\ supEscaped' = raised
        /\ supIdx' = IF raised = "none" THEN NextIdx ELSE 0
        /\ UNCHANGED <<argsTopic, argsThing, msgs, supMsg, supRets, warnings, errors>>
        /\ UNCHANGED <<topicVars, sessionVars, tokVars, camVars>>

\* the start / stop branches calling the RPC without looking at arg
SupStartStopUnguarded(rpcOK) ==
    /\ supIdx > 0
    /\ CurRet.kind = "tuple"
    /\ CurRet.command \in {StartProcess, StopProcess}
    /\ runs' = runs + 1
    /\ acted' = acted + 1
    /\ rpcLog' = Append(rpcLog, <<CurRet.command, CurRet.arg>>)
    /\ rpcFails' = IF rpcOK THEN rpcFails ELSE rpcFails + 1
    /\ supEscaped' = IF rpcOK THEN "none" ELSE "RPCError"
    /\ supIdx' = IF rpcOK THEN NextIdx ELSE 0
    /\ UNCHANGED <<argsTopic, argsThing, msgs, supMsg, supRets, infoReturned, warnings, errors,
                   publishersBuilt, pubConnected, pubConnects, pubConnectFails,
                   pubSends, pubTopics>>
    /\ UNCHANGED <<topicVars, sessionVars, tokVars, camVars>>

\* the branches cmd == 'startProcess' and cmd == 'stopProcess'
SupStartStop(rpcOK) ==
    LET calling == CurRet.arg # None /\ CurRet.arg # <<>>
        failed == calling /\ ~rpcOK
    IN  /\ supIdx > 0
        /\ CurRet.kind = "tuple"
        /\ CurRet.command \in {StartProcess, StopProcess}
        /\ runs' = runs + 1
        /\ acted' = acted + 1
        /\ rpcLog' = IF calling THEN Append(rpcLog, <<CurRet.command, CurRet.arg>>) ELSE rpcLog
        /\ rpcFails' = IF failed THEN rpcFails + 1 ELSE rpcFails
        /\ errors' = IF calling THEN errors ELSE errors + 1
        /\ supEscaped' = IF failed THEN "RPCError" ELSE "none"
        /\ supIdx' = IF failed THEN 0 ELSE NextIdx
        /\ UNCHANGED <<argsTopic, argsThing, msgs, supMsg, supRets, infoReturned, warnings,
                       publishersBuilt, pubConnected, pubConnects, pubConnectFails,
                       pubSends, pubTopics>>
        /\ UNCHANGED <<topicVars, sessionVars, tokVars, camVars>>

\* the else branch: 'Unrecognized command'
SupUnrecognized ==
    /\ supIdx > 0
    /\ CurRet.kind = "tuple"
    /\ CurRet.command \notin Verbs
    /\ runs' = runs + 1
    /\ warnings' = warnings + 1
    /\ supIdx' = NextIdx
    /\ UNCHANGED <<argsTopic, argsThing, msgs, supMsg, supRets, supEscaped, acted, rpcLog,
                   rpcFails, infoReturned, errors, publishersBuilt, pubConnected,
                   pubConnects, pubConnectFails, pubSends, pubTopics>>
    /\ UNCHANGED <<topicVars, sessionVars, tokVars, camVars>>

NextDevices ==
    \/ \E tp \in SupTopics, pl \in Payloads : SupDeliver(tp, pl)
    \/ SupMatchRaises
    \/ \E rpcOK \in BOOLEAN, connOK \in BOOLEAN, sendOK \in BOOLEAN :
          SupGetAllProcessInfo(rpcOK, connOK, sendOK)
    \/ \E rpcOK \in BOOLEAN : SupStartStop(rpcOK)
    \/ SupUnrecognized

SpecDevices == InitDevices /\ [][NextDevices]_vars

\* ------------------------------------------------------------------------
\* Properties of the supervisor router (checked under SpecDevices)
\* ------------------------------------------------------------------------
\* the step that runs one iteration of "for topic in args.topic"
Iteration == supIdx > 0 /\ runs' = runs + 1
\* the matcher returned one of the three verbs in this iteration
VerbFound == CurRet.kind = "tuple" /\ CurRet.command \in Verbs
\* the callback has returned or raised for the message delivered last
CallbackOver == msgs > 0 /\ supIdx = 0
\* the exceptions of the collaborators: the RPC and the transport
CollaboratorErrors == {"RPCError", "ConnectError", "SendError"}

\* C13: the router calls the process-control RPC only when the extracted
\* command is one of getAllProcessInfo, startProcess, stopProcess; for every
\* other outcome of the matcher it calls nothing, logs one warning and goes
\* on without an exception.
C13_OnlyKnownVerbs ==
    [][Iteration =>
          /\ rpcLog' # rpcLog => VerbFound
          /\ ~VerbFound =>
                 /\ rpcLog' = rpcLog
                 /\ warnings' = warnings + 1
                 /\ supEscaped' = "none"]_vars

\* C14: no failure of a collaborator (the supervisor RPC, the connect or the
\* publish of the status) leaves the callback.
C14_FailuresCaught == supEscaped \notin CollaboratorErrors

\* C18: when the callback is over (and no collaborator failed), topic_search
\* has run once for every configured pattern, a verb branch was entered once
\* for every pattern whose match returned a recognised verb, and never more
\* often than there are patterns.
C18_EveryPatternTried ==
    (CallbackOver /\ supEscaped \notin CollaboratorErrors) =>
        /\ runs = Len(argsTopic)
        /\ acted = Cardinality({k \in 1..Len(argsTopic) :
                        supRets[k].kind = "tuple" /\ supRets[k].command \in Verbs})
        /\ acted <= Len(argsTopic)

\* C19 as claimed: with a thing name set, after M getAllProcessInfo commands
\* whose RPC returned, M Publishers were built and the transport saw M connects
\* and M publishes.
C19_ConnectAndPublishEach ==
    (argsThing # None) =>
        /\ publishersBuilt = infoReturned
        /\ pubConnects = infoReturned
        /\ pubSends = infoReturned

\* C19 as amended: with a thing name set, each getAllProcessInfo command
\* whose RPC returned builds a new Publisher and makes exactly one transport
\* connect, followed by exactly one publish to the thing's shadow update
\* topic when that connect succeeds; after M such commands there are M
\* connects, none of them saved by an earlier Connected session. Without a
\* thing name nothing is built or connected.
C19_ConnectPerCommand ==
    /\ (argsThing # None) =>
           /\ publishersBuilt = infoReturned
           /\ pubConnects = infoReturned
           /\ pubSends = pubConnects - pubConnectFails
           /\ pubTopics \subseteq {iot_thing_topic(argsThing)}
    /\ (argsThing = None) => (publishersBuilt = 0 /\ pubConnects = 0 /\ pubSends = 0)

C19_Witness ==
    /\ argsThing = Thing
    /\ infoReturned >= 2
    /\ pubConnects = infoReturned
    /\ pubConnectFails = 0
    /\ pubSends = pubConnects
    /\ pubTopics = {iot_thing_topic(Thing)}

\* C20: a startProcess or stopProcess command reaches the RPC only with an
\* extracted argument, and then as the call <<command, argument>>; with no
\* argument no RPC call is made, one error is logged and nothing else changes.
C20_StartStopNeedsArgument ==
    [][(Iteration /\ CurRet.kind = "tuple" /\ CurRet.command \in {StartProcess, StopProcess}) =>
          IF CurRet.arg # None
          THEN rpcLog' = Append(rpcLog, <<CurRet.command, CurRet.arg>>)
          ELSE /\ rpcLog' = rpcLog
               /\ errors' = errors + 1
               /\ UNCHANGED <<argsTopic, argsThing, msgs, supMsg, supRets, supEscaped,
                              rpcFails, infoReturned, warnings, publishersBuilt,
                              pubConnected, pubConnects, pubConnectFails, pubSends,
                              pubTopics>>
               /\ UNCHANGED <<topicVars, sessionVars, tokVars, camVars>>]_vars

C20_Witness ==
    /\ errors >= 1
    /\ \E k \in 1..Len(rpcLog) : rpcLog[k] = <<StopProcess, Proc>>
    /\ \A k \in 1..Len(rpcLog) : rpcLog[k][2] = Proc

\* ------------------------------------------------------------------------
\* The camera subscriber: camera_sub.callback and awsiot.mv_to_s3
\* ------------------------------------------------------------------------
Workspace == <<"w", "o", "r", "k", "s", "p", "a", "c", "e">>
Snapshot == <<"s", "n", "a", "p", "s", "h", "o", "t">>
Recording == <<"r", "e", "c", "o", "r", "d", "i", "n", "g">>
Recognize == <<"r", "e", "c", "o", "g", "n", "i", "z", "e">>

\* args.topic of camera_sub
CamTopic == SegX

\* the topics of the messages delivered to the camera callback
CamTopics ==
    {CamTopic \o tail :
        tail \in {<<>>} \cup {<<"/">> \o v : v \in {Workspace, Snapshot, Recording, Recognize, Other}}}
    \cup {SegZ \o <<"/">> \o Snapshot}

\* the local files the callback writes
JpgFile == "time.jpg"
WebFile == "source.jpg"
H264File == "time.h264"
Mp4File == "time.mp4"

\* json.loads(message.payload) with "except ValueError: msg = None"
json_loads(payload) == IF payload \in {"{}", "1"} THEN payload ELSE "None"

\* commands.pop(0) of the camera callback, None when commands is empty
camera_cmd(tp) ==
    LET commands == filter(split(replace(tp, CamTopic), "/"))
    IN  IF Len(commands) > 0 THEN commands[1] ELSE None

\* a dispatch that drops the message when the payload does not parse
camera_branch_parsed_only(tp, payload) ==
    LET msg == json_loads(payload)
        cmd == camera_cmd(tp)
    IN  IF msg = "None" \/ cmd = None THEN "No commands"
        ELSE IF cmd = Workspace THEN "workspace"
        ELSE IF cmd = Snapshot THEN "snapshot"
        ELSE IF cmd = Recording THEN "recording"
        ELSE IF cmd = Recognize THEN "recognize"
        ELSE "Unrecognized command"

\* the branch of the if / elif chain the callback takes; msg is only logged
camera_branch(tp, payload) ==
    LET msg == json_loads(payload)
        cmd == camera_cmd(tp)
    IN  IF cmd = None THEN "No commands"
        ELSE IF cmd = Workspace THEN "workspace"
        ELSE IF cmd = Snapshot THEN "snapshot"
        ELSE IF cmd = Recording THEN "recording"
        ELSE IF cmd = Recognize THEN "recognize"
        ELSE "Unrecognized command"

\* awsiot.mv_to_s3(file_name, bucket, tags) started with the local files fs,
\* the objects objs and the tagged objects tgd; upload_file raises when upOK
\* is false or the file is missing, put_object_tagging raises when tagOK is
\* false, os.remove fails (caught in rm) when rmOK is false
mv_to_s3(fs, objs, tgd, file_name, tagged, upOK, tagOK, rmOK) ==
    LET uploaded == upOK /\ file_name \in fs
        tagFailed == uploaded /\ tagged /\ ~tagOK
        reachedRm == uploaded /\ ~tagFailed
    IN  [files |-> IF reachedRm /\ rmOK THEN fs \ {file_name} ELSE fs,
         s3objects |-> IF uploaded THEN objs \cup {file_name} ELSE objs,
         s3tagged |-> IF uploaded /\ tagged /\ tagOK THEN tgd \cup {file_name} ELSE tgd,
         raised |-> IF ~uploaded THEN "UploadError"
                    ELSE IF tagFailed THEN "TagError" ELSE "none",
         mv |-> [called |-> TRUE, file |-> file_name, existed |-> file_name \in fs,
                 uploaded |-> uploaded, tagFailed |-> tagFailed,
                 rmFailed |-> reachedRm /\ ~rmOK]]

\* nothing uploaded: the state as it is
no_mv(fs) ==
    [files |-> fs, s3objects |-> s3objects, s3tagged |-> s3tagged, raised |-> "none",
     mv |-> NoMv]

\* the branches 'workspace', 'snapshot' and 'recognize' up to mv_to_s3:
\* snapshot(filename), then the upload when a bucket is configured
snap_and_move(file_name, tagged, snapOK, upOK, tagOK, rmOK) ==
    LET fs == IF snapOK THEN files \cup {file_name} ELSE files
    IN  IF snapOK /\ camBuckets
        THEN mv_to_s3(fs, s3objects, s3tagged, file_name, tagged, upOK, tagOK, rmOK)
        ELSE no_mv(fs)

\* the branch 'recording': recording(h264), MP4Box, mv_to_s3(mp4), rm(h264)
record_and_move(recOK, convOK, upOK, tagOK, rmOK) ==
    LET fs1 == IF recOK THEN files \cup {H264File} ELSE files
        fs2 == IF convOK THEN fs1 \cup {Mp4File} ELSE fs1
        moved == mv_to_s3(fs2, s3objects, s3tagged, Mp4File, TRUE, upOK, tagOK, rmOK)
    IN  IF recOK /\ camBuckets
        THEN IF moved.raised = "none" /\ rmOK
             THEN [moved EXCEPT !.files = @ \ {H264File}]
             ELSE moved
        ELSE no_mv(fs1)

\* the branch 'recognize' after mv_to_s3: awsiot.recognize tags the object
\* and returns a bool, and '"Labels" in result' then raises TypeError
recognize_after(moved, recogOK) ==
    IF moved.mv.called /\ moved.raised = "none"
    THEN IF recogOK
         THEN [moved EXCEPT !.s3tagged = @ \cup {JpgFile}, !.raised = "TypeError"]
         ELSE [moved EXCEPT !.raised = "RecognizeError"]
    ELSE moved

\* what the branch does to the files and the bucket
camera_effect(branch, o) ==
    IF branch = "workspace"
    THEN snap_and_move(JpgFile, TRUE, o.capOK, o.upOK, o.tagOK, o.rmOK)
    ELSE IF branch = "snapshot"
    THEN snap_and_move(WebFile, TRUE, o.capOK, o.upOK, o.tagOK, o.rmOK)
    ELSE IF branch = "recording"
    THEN record_and_move(o.capOK, o.convOK, o.upOK, o.tagOK, o.rmOK)
    ELSE IF branch = "recognize"
    THEN recognize_after(snap_and_move(JpgFile, FALSE, o.capOK, o.upOK, o.tagOK, o.rmOK),
                         o.recogOK)
    ELSE no_mv(files)

\* what the collaborators do during one message: camera capture, MP4Box,
\* upload, tagging, os.remove and label detection succeed or fail
Outcomes ==
    [capOK : BOOLEAN, convOK : BOOLEAN, upOK : BOOLEAN, tagOK : BOOLEAN,
     rmOK : BOOLEAN, recogOK : BOOLEAN]

InitCameraSub ==
    /\ camBuckets \in BOOLEAN
    /\ InitCamera
    /\ argsTopic = <<>>
    /\ argsThing = None
    /\ InitSupervisor
    /\ topic = <<>>
    /\ input = <<>>
    /\ ret = NotCalled
    /\ serial = TRUE
    /\ InitSessions
    /\ InitTokIdle

\* camera_sub.callback for one message, the collaborators doing as o says
CameraCallback(tp, pl) ==
    \E branch \in {camera_branch(tp, pl)},
       twin \in {{camera_branch(tp, other) : other \in Payloads \ {pl}}} :
        \E o \in Outcomes :
            \E eff \in {camera_effect(branch, o)} :
                /\ msgs < MaxMessages
                /\ msgs' = msgs + 1
                /\ camMsg' = [topic |-> tp, payload |-> pl]
                /\ camBranch' = branch
                /\ camTwin' = twin
                /\ camEscaped' = eff.raised
                /\ files' = eff.files
                /\ s3objects' = eff.s3objects
                /\ s3tagged' = eff.s3tagged
                /\ mv' = eff.mv
                /\ UNCHANGED camBuckets
                /\ UNCHANGED <<argsTopic, argsThing, supMsg, supIdx, supRets, supEscaped,
                               runs, acted, rpcLog, rpcFails, infoReturned, warnings,
                               errors, publishersBuilt, pubConnected, pubConnects,
                               pubConnectFails, pubSends, pubTopics>>
                /\ UNCHANGED <<topicVars, sessionVars, tokVars>>

NextCamera == \E tp \in CamTopics, pl \in Payloads : CameraCallback(tp, pl)

SpecCamera == InitCameraSub /\ [][NextCamera]_vars

\* ------------------------------------------------------------------------
\* Properties of the camera subscriber (checked under SpecCamera)
\* ------------------------------------------------------------------------
\* C15: the branch the callback takes depends on the topic of the message
\* only: the same topic with any other payload, one that fails to parse
\* included, takes the same branch.
C15_PayloadIndependent ==
    camBranch # "none" => camTwin = {camBranch}

C15_Witness ==
    /\ camMsg.payload = "{"
    /\ camBranch = "snapshot"
    /\ mv.called /\ mv.uploaded
    /\ camTwin = {"snapshot"}

\* C16: after mv_to_s3 the local file is gone whenever the upload succeeded
\* (and os.remove did not fail), a failed tagging step included, and it is
\* still there when the upload failed.
C16_MovedFileDeleted ==
    mv.called =>
        /\ (mv.uploaded /\ ~mv.rmFailed) => mv.file \notin files
        /\ (~mv.uploaded /\ mv.existed) => mv.file \in files

====
